---- MODULE Spec2Model ----
(***************************************************************************)
(* Model of the Image Watermarking App: the main window                    *)
(* (ImageWindowMaker, src/ui.py) and the text-settings dialog (TextMenu,   *)
(* src/text_menu_ui.py).  Every action is one Tk event handler (a button   *)
(* command, a widget edit, a window-manager close), run to completion on   *)
(* the single GUI thread.  The native file pickers and message boxes block *)
(* the handler that opens them, so they are part of that handler's step;   *)
(* what the user answers is the action's input.                            *)
(*                                                                         *)
(* Python attributes that the constructor does not create are Unset:       *)
(* reading one raises AttributeError.  The file system is the small set of *)
(* paths the pickers can return; a path holds the original image,          *)
(* an empty (truncated) file or an image written by save_image.  Files that *)
(* are unreadable for other reasons and paths that cannot be written are   *)
(* not among the inputs.                                                   *)
(***************************************************************************)
EXTENDS Integers, Sequences, FiniteSets, TLC

VARIABLES
    in_principal,      \* ImageWindowMaker.in_principal
    search_file,       \* ImageWindowMaker.search_file
    new_image,         \* ImageWindowMaker.new_image: the path the preview was loaded from
    text_watermarker,  \* ImageWindowMaker.text_watermarker: canvas item id
    watermark_text,    \* ImageWindowMaker.watermark_text
    text_color,        \* ImageWindowMaker.text_color
    font_size,         \* ImageWindowMaker.font_size
    font_value,        \* ImageWindowMaker.font_value
    canvas,            \* ImageWindowMaker.canvas: the items of the current Canvas
    stale_canvases,    \* earlier Canvas widgets, still gridded under the current one
    shown,             \* the gridded (visible, clickable) widgets of the main window
    in_use,            \* TextMenu.in_use (class attribute)
    dialogs,           \* the TextMenu windows that exist, oldest first
    grab,              \* index in dialogs of the window holding the Tk grab, 0: none
    fs,                \* the files the pickers can name
    event              \* what the last handler did that the user can observe

vars == <<in_principal, search_file, new_image, text_watermarker, watermark_text,
          text_color, font_size, font_value, canvas, stale_canvases, shown,
          in_use, dialogs, grab, fs, event>>

main_vars == <<in_principal, search_file, new_image, text_watermarker, watermark_text,
               text_color, font_size, font_value, canvas, stale_canvases, shown>>

-----------------------------------------------------------------------------
(* Bounds of the model *)

MaxFonts == 2          \* how many entries of FONTS the user picks among
MaxStale == 1          \* how many returns to the main screen are explored
MaxDialogs == 2        \* how many TextMenu windows may exist at once

-----------------------------------------------------------------------------
(* Values *)

Unset == "<unset>"
None == "<None>"

FONTS == <<"Arial", "Verdana", "Times New Roman", "Courier New", "Georgia",
           "Comic Sans MS", "Trebuchet MS", "Impact", "Lucida Console", "Tahoma">>

COLORS_AND_CODE ==
    [Red |-> "#a32424", Blue |-> "#2424a3", Yellow |-> "#e8ff00",
     Black |-> "#000000", White |-> "#ffffff"]

\* dict.get: the value of the key, None for a key the dict does not have
COLORS_AND_CODE_get(k) ==
    IF k \in DOMAIN COLORS_AND_CODE THEN COLORS_AND_CODE[k] ELSE None

SpinFrom == 30
SpinTo == 80

Digit(d) == <<"0", "1", "2", "3", "4", "5", "6", "7", "8", "9">>[d + 1]

\* the text a ttk.Spinbox shows for the number n (format %.0f)
SpinText(n) == Digit(n \div 10) \o Digit(n % 10)

\* int(s) for the texts the spinbox can hold
int(s) == CHOOSE n \in SpinFrom..SpinTo : SpinText(n) = s

\* what the user can enter in the four fields of the dialog
TextChoices == {"", "hi"}
ColorChoices == DOMAIN COLORS_AND_CODE
SpinChoices == {SpinText(SpinFrom), SpinText(SpinTo)}
FontChoices == {FONTS[i] : i \in 1..MaxFonts}

\* the paths the file pickers can return; "" is a cancelled picker
Paths == {"a.png", "b.png"}

NoCallback == <<>>
NoImage == [base |-> None, text |-> None, fill |-> None, font |-> None, size |-> 0]

\* What a handler did: the window it ran in (0: the main window, else the index of
\* the dialog), what a file picker answered, whether the font resource could be
\* read, the message box shown, the exception that ended it, the arguments it gave
\* the callback and the image it wrote
Ev(op) ==
    [op |-> op, win |-> 0, picked |-> None, font_ok |-> None, notice |-> None,
     raised |-> None, cb |-> NoCallback, written |-> NoImage]

-----------------------------------------------------------------------------
(* Canvas items *)

NoItem == [exists |-> FALSE, text |-> "", fill |-> "", family |-> "", size |-> ""]

\* Canvas.create_text(300, 500, width=500, text=""): Tk's default fill and font
create_text == [exists |-> TRUE, text |-> "", fill |-> "black",
                family |-> "TkDefaultFont", size |-> ""]

\* Canvas.itemconfig on an id the canvas does not have changes nothing
itemconfig(item, t, c, f, s) ==
    IF item.exists
    THEN [exists |-> TRUE, text |-> t, fill |-> c, family |-> f, size |-> s]
    ELSE item

\* the canvas menu_start builds: the title, the logo showing the icon, no text item
menu_start_canvas == [title |-> TRUE, logo |-> "icon", item |-> NoItem]

\* the widgets menu_start grids
menu_start_widgets == {"select_file_button", "credit_label"}

EditingButtons == {"insert_text_button", "save_button", "return_button"}

\* setting_buttons that leaves the "Select File" button gridded
setting_buttons_keeps_select(state, w) ==
    IF ~state THEN w \cup EditingButtons ELSE w

\* setting_buttons(state): the widgets gridded afterwards
setting_buttons(state, w) ==
    IF ~state THEN (w \ {"select_file_button"}) \cup EditingButtons ELSE w

\* Image.open succeeds on a file that holds an image
IsImage(content) == content \in {"original", "composite"}

-----------------------------------------------------------------------------
(* The Tk event loop: which windows receive the user's events *)

\* a widget of the main window gets events only while no dialog holds the grab
MainReceives(widget) == grab = 0 /\ widget \in shown

\* a dialog gets events unless another window holds the grab
DialogReceives(i) == i \in 1..Len(dialogs) /\ grab \in {0, i}

Remove(seq, i) == [j \in 1..(Len(seq) - 1) |-> IF j < i THEN seq[j] ELSE seq[j + 1]]

\* destroying the window that holds the grab releases the grab
GrabAfterDestroy(g, i) == IF g = i THEN 0 ELSE IF g > i THEN g - 1 ELSE g

-----------------------------------------------------------------------------
Init ==
    /\ in_principal = TRUE
    /\ search_file = Unset
    /\ new_image = Unset
    /\ text_watermarker = Unset
    /\ watermark_text = Unset
    /\ text_color = Unset
    /\ font_size = Unset
    /\ font_value = Unset
    /\ canvas = menu_start_canvas
    /\ stale_canvases = 0
    /\ shown = menu_start_widgets
    /\ in_use = FALSE
    /\ dialogs = <<>>
    /\ grab = 0
    /\ fs = [p \in Paths |-> "original"]
    /\ event = Ev("__init__")


-----------------------------------------------------------------------------
(* Main window: ImageWindowMaker *)

\* add_image: the text item is created first, then the file is opened; a file
\* that holds no image makes Image.open raise and leaves the logo as it was
add_image_canvas(c, path, content) ==
    [c EXCEPT !.item = create_text,
              !.logo = IF IsImage(content) THEN path ELSE c.logo]

add_image_raised(content) ==
    IF IsImage(content) THEN None ELSE "UnidentifiedImageError"

\* "Select File": the picker's answer is stored before it is looked at
change_menu(path) ==
    /\ MainReceives("select_file_button")
    /\ search_file' = path
    /\ IF in_principal /\ path # ""
       THEN /\ in_principal' = FALSE
            /\ shown' = setting_buttons(FALSE, shown \ {"credit_label"})
            /\ text_watermarker' = "3"
            /\ canvas' = add_image_canvas([canvas EXCEPT !.title = FALSE], path, fs[path])
            /\ new_image' = IF IsImage(fs[path]) THEN path ELSE new_image
            /\ event' = [Ev("change_menu") EXCEPT !.picked = path,
                                                   !.raised = add_image_raised(fs[path])]
       ELSE /\ UNCHANGED <<in_principal, shown, text_watermarker, canvas, new_image>>
            /\ event' = [Ev("change_menu") EXCEPT !.picked = path]
    /\ UNCHANGED <<watermark_text, text_color, font_size, font_value, stale_canvases,
                   in_use, dialogs, grab, fs>>

\* asksaveasfile(mode='w') opens the chosen file for writing: it now exists, empty
asksaveasfile(files, target) == [files EXCEPT ![target] = "truncated"]

\* ImageFont.truetype(font_path, int(self.font_size)), IOError -> load_default()
load_font(font_ok, size) ==
    IF font_ok THEN [font |-> "path_to_font.ttf", size |-> int(size)]
    ELSE [font |-> "default", size |-> 0]

\* save_render without the except clause: the font's IOError escapes
save_render_font_error_escapes(files, path, twm, item, size, color, font_ok) ==
    IF path \notin Paths \/ ~IsImage(files[path])
    THEN [raised |-> "UnidentifiedImageError", written |-> NoImage]
    ELSE IF twm = Unset \/ size = Unset \/ color = Unset
    THEN [raised |-> "AttributeError", written |-> NoImage]
    ELSE IF ~font_ok
    THEN [raised |-> "OSError", written |-> NoImage]
    ELSE [raised |-> None,
          written |-> [base |-> path, text |-> item.text, fill |-> color,
                       font |-> "path_to_font.ttf", size |-> int(size)]]

\* save_render that draws the stored watermark_text, not the canvas item's text
save_render_draws_stored_text(files, path, twm, item, size, color, font_ok) ==
    IF path \notin Paths \/ ~IsImage(files[path])
    THEN [raised |-> "UnidentifiedImageError", written |-> NoImage]
    ELSE IF twm = Unset \/ size = Unset \/ color = Unset
    THEN [raised |-> "AttributeError", written |-> NoImage]
    ELSE [raised |-> None,
          written |-> [base |-> path, text |-> watermark_text, fill |-> color,
                       font |-> load_font(font_ok, size).font,
                       size |-> load_font(font_ok, size).size]]

\* the body of save_image after the picker: the exception it ends with (None: it
\* ran to the end) and the image it wrote
save_render(files, path, twm, item, size, color, font_ok) ==
    IF path \notin Paths \/ ~IsImage(files[path])
    THEN [raised |-> "UnidentifiedImageError", written |-> NoImage]
    ELSE IF twm = Unset \/ size = Unset \/ color = Unset
    THEN [raised |-> "AttributeError", written |-> NoImage]
    ELSE [raised |-> None,
          written |-> [base |-> path, text |-> item.text, fill |-> color,
                       font |-> load_font(font_ok, size).font,
                       size |-> load_font(font_ok, size).size]]

\* "Save Image": target is the picker's answer, "" when the user cancels
save_image(target, font_ok) ==
    /\ MainReceives("save_button")
    /\ IF target = ""
       THEN /\ fs' = fs
            /\ event' = [Ev("save_image") EXCEPT !.picked = target]
       ELSE LET files == asksaveasfile(fs, target)
                r == save_render(files, search_file, text_watermarker, canvas.item,
                                 font_size, text_color, font_ok)
            IN  /\ fs' = IF r.raised = None
                         THEN [files EXCEPT ![target] = "composite"]
                         ELSE files
                /\ event' = [Ev("save_image") EXCEPT
                                 !.picked = target,
                                 !.font_ok = IF font_ok THEN "yes" ELSE "no",
                                 !.notice = IF r.raised = None THEN "Image saved" ELSE None,
                                 !.raised = r.raised,
                                 !.written = r.written]
    /\ UNCHANGED <<main_vars, in_use, dialogs, grab>>

\* "Return": the editing buttons are forgotten and menu_start builds a new
\* canvas over the old one, which is neither forgotten nor destroyed
return_to_principal ==
    /\ MainReceives("return_button")
    /\ stale_canvases < MaxStale
    /\ in_principal' = TRUE
    /\ shown' = (shown \ EditingButtons) \cup menu_start_widgets
    /\ canvas' = menu_start_canvas
    /\ stale_canvases' = stale_canvases + 1
    /\ event' = Ev("return_to_principal")
    /\ UNCHANGED <<search_file, new_image, text_watermarker, watermark_text,
                   text_color, font_size, font_value, in_use, dialogs, grab, fs>>

\* TextMenu.__init__: four empty fields
TextMenu == [text_entry |-> "", color_box |-> "", spinbox |-> "", font_box |-> ""]

\* open_text_settings whose dialog raises the guard that nothing lowers
open_text_settings_sets_in_use ==
    /\ MainReceives("insert_text_button")
    /\ Len(dialogs) < MaxDialogs
    /\ IF ~in_use
       THEN /\ dialogs' = Append(dialogs, TextMenu)
            /\ grab' = Len(dialogs) + 1
            /\ in_use' = TRUE
       ELSE UNCHANGED <<dialogs, grab, in_use>>
    /\ event' = Ev("open_text_settings")
    /\ UNCHANGED <<main_vars, fs>>

\* open_text_settings whose dialog does not call grab_set()
open_text_settings_no_grab ==
    /\ MainReceives("insert_text_button")
    /\ Len(dialogs) < MaxDialogs
    /\ IF ~in_use
       THEN dialogs' = Append(dialogs, TextMenu)
       ELSE UNCHANGED dialogs
    /\ event' = Ev("open_text_settings")
    /\ UNCHANGED <<main_vars, in_use, grab, fs>>

\* "Insert a text": the constructor does not touch TextMenu.in_use; it ends
\* with grab_set()
open_text_settings ==
    /\ MainReceives("insert_text_button")
    /\ Len(dialogs) < MaxDialogs
    /\ IF ~in_use
       THEN /\ dialogs' = Append(dialogs, TextMenu)
            /\ grab' = Len(dialogs) + 1
       ELSE UNCHANGED <<dialogs, grab>>
    /\ event' = Ev("open_text_settings")
    /\ UNCHANGED <<main_vars, in_use, fs>>

\* the callback of the dialog
values_received(r_text, r_color_text, r_font_size, r_font_value) ==
    /\ watermark_text' = r_text
    /\ text_color' = r_color_text
    /\ font_size' = r_font_size
    /\ font_value' = r_font_value
    /\ canvas' = [canvas EXCEPT !.item = itemconfig(canvas.item, r_text, r_color_text,
                                                    r_font_value, r_font_size)]
    /\ UNCHANGED <<in_principal, search_file, new_image, text_watermarker,
                   stale_canvases, shown>>

-----------------------------------------------------------------------------
(* Dialog: TextMenu *)

edit(i, field, v) ==
    /\ DialogReceives(i)
    /\ dialogs' = [dialogs EXCEPT ![i][field] = v]
    /\ event' = [Ev("input") EXCEPT !.win = i]
    /\ UNCHANGED <<main_vars, in_use, grab, fs>>

text_entry(i, v) == edit(i, "text_entry", v)
color_box(i, v) == edit(i, "color_box", v)
spinbox(i, v) == edit(i, "spinbox", v)
font_box(i, v) == edit(i, "font_box", v)

\* the test of apply_changes without its last conjunct
all_filled_skips_font(font_size_value, color_value, text_value, font_value_) ==
    font_size_value # "" /\ color_value # "" /\ text_value # ""

\* the test of apply_changes
all_filled(font_size_value, color_value, text_value, font_value_) ==
    font_size_value # "" /\ color_value # "" /\ text_value # "" /\ font_value_ # ""

\* the arguments with the selected color name passed on as it is
callback_args_color_name(font_size_value, color_value, text_value, font_value_) ==
    <<text_value, color_value, font_size_value, font_value_>>

\* the arguments apply_changes hands to the callback
callback_args(font_size_value, color_value, text_value, font_value_) ==
    <<text_value, COLORS_AND_CODE_get(color_value), font_size_value, font_value_>>

\* close_window: self.destroy()
close_window(i) ==
    /\ dialogs' = Remove(dialogs, i)
    /\ grab' = GrabAfterDestroy(grab, i)

\* apply_changes that does not close the window after the callback
apply_changes_keeps_window(i) ==
    /\ DialogReceives(i)
    /\ LET d == dialogs[i]
           args == <<d.text_entry, COLORS_AND_CODE_get(d.color_box), d.spinbox, d.font_box>>
       IN  IF d.spinbox # "" /\ d.color_box # "" /\ d.text_entry # "" /\ d.font_box # ""
           THEN /\ values_received(args[1], args[2], args[3], args[4])
                /\ event' = [Ev("apply_changes") EXCEPT !.win = i, !.cb = args]
                /\ UNCHANGED <<dialogs, grab>>
           ELSE /\ event' = [Ev("apply_changes") EXCEPT !.win = i,
                                                     !.notice = "Missing Values"]
                /\ UNCHANGED <<main_vars, dialogs, grab>>
    /\ UNCHANGED <<in_use, fs>>

\* "Apply changes"
apply_changes(i) ==
    /\ DialogReceives(i)
    /\ LET d == dialogs[i]
           args == callback_args(d.spinbox, d.color_box, d.text_entry, d.font_box)
       IN  IF all_filled(d.spinbox, d.color_box, d.text_entry, d.font_box)
           THEN /\ values_received(args[1], args[2], args[3], args[4])
                /\ close_window(i)
                /\ event' = [Ev("apply_changes") EXCEPT !.win = i, !.cb = args]
           ELSE /\ event' = [Ev("apply_changes") EXCEPT !.win = i,
                                                     !.notice = "Missing Values"]
                /\ UNCHANGED <<main_vars, dialogs, grab>>
    /\ UNCHANGED <<in_use, fs>>

\* the window manager's close button: Toplevel's default handler destroys the
\* window; the protocol message is not held back by another window's grab
wm_delete_window(i) ==
    /\ i \in 1..Len(dialogs)
    /\ close_window(i)
    /\ event' = [Ev("wm_delete_window") EXCEPT !.win = i]
    /\ UNCHANGED <<main_vars, in_use, fs>>

-----------------------------------------------------------------------------
Next ==
    \/ \E path \in {""} \cup Paths : change_menu(path)
    \/ \E target \in {""} \cup Paths, font_ok \in BOOLEAN : save_image(target, font_ok)
    \/ return_to_principal
    \/ open_text_settings
    \/ \E i \in 1..Len(dialogs) :
        \/ \E v \in TextChoices : text_entry(i, v)
        \/ \E v \in ColorChoices : color_box(i, v)
        \/ \E v \in SpinChoices : spinbox(i, v)
        \/ \E v \in FontChoices : font_box(i, v)
        \/ apply_changes(i)
        \/ wm_delete_window(i)

Spec == Init /\ [][Next]_vars

-----------------------------------------------------------------------------
(* Vocabulary of the properties *)

Landing == in_principal
Editing == ~in_principal

\* the stored image path, an attribute never assigned counting as no path
PathOf(x) == IF x = Unset THEN "" ELSE x

\* the dialog the last handler ran in, as it was before the handler
Applied(ds, e) == ds[e.win]

Filled(d) == d.text_entry # "" /\ d.color_box # "" /\ d.spinbox # "" /\ d.font_box # ""

\* the palette as the specification states it
HexOf(name) ==
    CASE name = "Red" -> "#a32424"
      [] name = "Blue" -> "#2424a3"
      [] name = "Yellow" -> "#e8ff00"
      [] name = "Black" -> "#000000"
      [] name = "White" -> "#ffffff"
      [] OTHER -> "?"

ConfirmedSave == event.op = "save_image" /\ event.picked # ""

\* the image file of the session was readable when the last save opened it: a
\* save never turns an unreadable file into an image at the session's own path
SourceReadable == search_file \in Paths /\ IsImage(fs[search_file])

-----------------------------------------------------------------------------
(* C1: at most one dialog is open in every reachable state, and the "in use"  *)
(* guard is true exactly while a dialog is open.                              *)
C1_GuardTracksDialog ==
    /\ Len(dialogs) <= 1
    /\ in_use <=> (Len(dialogs) = 1)

(* C2: a confirmed save in the Editing state when no watermark was ever       *)
(* applied succeeds: no exception, the image written to the chosen path with  *)
(* empty overlay text, and the success message shown.  (Stated for saves      *)
(* whose image file is readable, the case most favourable to the claim.)      *)
C2_SaveWithoutWatermark ==
    (ConfirmedSave /\ Editing /\ watermark_text = Unset /\ SourceReadable)
        => /\ event.raised = None
           /\ event.notice = "Image saved"
           /\ event.written.text = ""
           /\ fs[event.picked] = "composite"

(* C3: confirm() with any of the four fields empty does not invoke the        *)
(* callback, leaves the dialog open and the main window's state unchanged,    *)
(* and shows the validation notice.                                           *)
C3_RejectedConfirm ==
    [][(event'.op = "apply_changes" /\ ~Filled(Applied(dialogs, event')))
          => /\ event'.cb = NoCallback
             /\ event'.notice = "Missing Values"
             /\ dialogs' = dialogs
             /\ grab' = grab
             /\ main_vars' = main_vars]_vars

C3_Witness ==
    /\ event.op = "apply_changes"
    /\ event.notice = "Missing Values"
    /\ Len(dialogs) = 1
    /\ dialogs[1].text_entry # "" /\ dialogs[1].color_box # ""
    /\ dialogs[1].spinbox # "" /\ dialogs[1].font_box = ""
    /\ watermark_text # Unset

(* C4: confirm() with four non-empty fields invokes the callback with the     *)
(* text, size and family as entered and the palette's hex code of the color   *)
(* name, stores them in the main window, and closes the dialog.               *)
C4_ConfirmDelivers ==
    [][(event'.op = "apply_changes" /\ Filled(Applied(dialogs, event')))
          => LET d == Applied(dialogs, event')
             IN  /\ event'.cb = <<d.text_entry, HexOf(d.color_box), d.spinbox, d.font_box>>
                 /\ <<watermark_text', text_color', font_size', font_value'>> = event'.cb
                 /\ dialogs' = Remove(dialogs, event'.win)]_vars

C4_Witness ==
    /\ event.op = "apply_changes"
    /\ event.cb = <<"hi", "#e8ff00", "80", "Verdana">>
    /\ dialogs = <<>>

(* C5: over a dialog's lifetime the callback fires at most once (the handler  *)
(* that fires it destroys the dialog, and only an existing dialog fires it),  *)
(* and all four delivered values are non-empty.                               *)
C5_CallbackAtMostOnce ==
    [][(event'.cb # NoCallback)
          => /\ event'.op = "apply_changes"
             /\ event'.win \in 1..Len(dialogs)
             /\ dialogs' = Remove(dialogs, event'.win)
             /\ \A k \in 1..4 : event'.cb[k] \notin {"", None}]_vars

C5_Witness ==
    /\ event.op = "apply_changes"
    /\ event.cb # NoCallback
    /\ Len(dialogs) = 0
    /\ grab = 0

(* C6: after returnToMain the session state is that of the initial launch:    *)
(* landing mode, no image path, no watermark parameters, exactly the landing  *)
(* widgets and no earlier canvas.                                             *)
C6_ReturnRestoresLaunch ==
    (event.op = "return_to_principal")
        => /\ in_principal
           /\ PathOf(search_file) = ""
           /\ <<watermark_text, text_color, font_size, font_value>>
                 = <<Unset, Unset, Unset, Unset>>
           /\ canvas = menu_start_canvas
           /\ shown = menu_start_widgets
           /\ stale_canvases = 0

(* C7: a cancelled selectFile leaves the whole session state unchanged        *)
(* (mode, image path, preview, watermark parameters, widgets).                *)
C7_CancelChangesNothing ==
    [][(event'.op = "change_menu" /\ event'.picked = "")
          => /\ PathOf(search_file') = PathOf(search_file)
             /\ <<in_principal', new_image', text_watermarker', watermark_text',
                  text_color', font_size', font_value', canvas', shown'>>
                = <<in_principal, new_image, text_watermarker, watermark_text,
                    text_color, font_size, font_value, canvas, shown>>]_vars

Available ==
    /\ Landing => shown \cap ({"select_file_button"} \cup EditingButtons)
                     = {"select_file_button"}
    /\ Editing => shown \cap ({"select_file_button"} \cup EditingButtons)
                     = EditingButtons

C9_ModeMachine ==
    [][/\ Available /\ Available'
       /\ (Landing /\ Editing') => (event'.op = "change_menu" /\ event'.picked # "")
       /\ (Editing /\ Landing') => event'.op = "return_to_principal"
       /\ event'.op \in {"save_image", "open_text_settings", "apply_changes",
                         "input", "wm_delete_window"}
             => in_principal' = in_principal
       /\ (event'.op = "change_menu" /\ event'.picked = "")
             => in_principal' = in_principal
       /\ event'.op \in {"save_image", "open_text_settings", "return_to_principal",
                         "apply_changes", "input", "wm_delete_window"} => Editing
       /\ event'.op = "change_menu" => Landing]_vars

C9_Witness ==
    /\ Editing
    /\ stale_canvases = 1
    /\ event.op = "apply_changes"
    /\ event.cb # NoCallback

(* C10: once a dialog is closed, by a confirm or by dismissal, the guard is   *)
(* clear and the main window can open a dialog again; openTextDialog then     *)
(* opens a new dialog.                                                        *)
C10_ReopenAfterClose ==
    [][/\ Len(dialogs') < Len(dialogs)
             => /\ ~in_use'
                /\ grab' = 0
                /\ "insert_text_button" \in shown'
       /\ event'.op = "open_text_settings"
             => /\ dialogs' = Append(dialogs, TextMenu)
                /\ grab' = Len(dialogs')]_vars

C10_Witness ==
    /\ event.op = "open_text_settings"
    /\ Len(dialogs) = 1
    /\ watermark_text # Unset
    /\ stale_canvases = 0

(* C11: within an Editing session, after a confirmation the stored            *)
(* parameters and the canvas overlay equal the confirmed spec, and the text,  *)
(* color and size drawn by the next confirmed save equal those of the spec    *)
(* confirmed last.  (Stated for saves whose image file is readable.)          *)
C11_LastSpecEverywhere ==
    /\ (event.cb # NoCallback)
          => /\ <<watermark_text, text_color, font_size, font_value>> = event.cb
             /\ <<canvas.item.text, canvas.item.fill, canvas.item.size>>
                   = <<event.cb[1], event.cb[2], event.cb[3]>>
    /\ (ConfirmedSave /\ Editing /\ SourceReadable /\ canvas.item.text # "")
          => /\ event.written.text = watermark_text
             /\ event.written.fill = text_color
             /\ event.written.size = int(font_size)

(* C13: in the Editing state the stored image path is a path the picker        *)
(* returned: it is set by the selectFile that entered the session and no      *)
(* later step changes it, and whatever a save writes is composited onto the   *)
(* image at that path.                                                        *)
C13_SessionImagePath ==
    [][Editing'
          => /\ search_file' \in Paths
             /\ IF Landing
                THEN event'.op = "change_menu" /\ search_file' = event'.picked
                ELSE search_file' = search_file
             /\ (event'.op = "save_image" /\ event'.written # NoImage)
                   => event'.written.base = search_file']_vars

C13_Witness ==
    /\ Editing
    /\ stale_canvases = 1
    /\ search_file = "b.png"
    /\ new_image = "b.png"
    /\ ConfirmedSave
    /\ event.written.base = "b.png"
    /\ fs["a.png"] = "composite"

(* C14: a new Editing session starts with an overlay item whose text is        *)
(* empty, only a delivered callback changes that text, and a save draws the   *)
(* item's text: until the session's first applyWatermark the text shown and   *)
(* saved is empty, whatever an earlier session stored.                        *)
C14_FreshOverlayPerSession ==
    [][/\ (Landing /\ Editing')
             => canvas'.item.exists /\ canvas'.item.text = ""
       /\ (Editing /\ Editing' /\ event'.cb = NoCallback)
             => canvas'.item.text = canvas.item.text
       /\ (event'.op = "save_image" /\ event'.written # NoImage)
             => event'.written.text = canvas.item.text]_vars

C14_Witness ==
    /\ Editing
    /\ stale_canvases = 1
    /\ watermark_text = "hi"
    /\ canvas.item.text = ""
    /\ ConfirmedSave
    /\ event.notice = "Image saved"
    /\ event.written.text = ""

(* C15: while a dialog exists the main window is in the Editing state, the    *)
(* dialog holds the grab and the current canvas has the overlay item; no      *)
(* selectFile, save or returnToMain runs while a dialog exists; a callback is *)
(* delivered in the Editing state and sets the text of that item.             *)
C15_DialogInsideSession ==
    [][/\ (Len(dialogs') > 0)
             => Editing' /\ grab' \in 1..Len(dialogs') /\ canvas'.item.exists
       /\ event'.op \in {"change_menu", "save_image", "return_to_principal"}
             => dialogs = <<>> /\ dialogs' = <<>>
       /\ (event'.cb # NoCallback)
             => /\ Editing /\ Editing'
                /\ canvas.item.exists
                /\ canvas'.item.text = event'.cb[1]
                /\ canvas'.item.fill = event'.cb[2]]_vars

C15_Witness ==
    /\ Editing
    /\ stale_canvases = 1
    /\ event.op = "apply_changes"
    /\ event.cb # NoCallback
    /\ canvas.item.text = "hi"
    /\ canvas.item.family = "Verdana"

(* C16: a save is all-or-nothing for the chosen path: after any save every    *)
(* file is as it was before or holds the composited image.  (Stated for saves *)
(* made after a watermark was applied.)                                       *)
C16_SaveAllOrNothing ==
    [][(event'.op = "save_image" /\ watermark_text # Unset)
          => \A p \in Paths : fs'[p] = fs[p] \/ fs'[p] = "composite"]_vars

====
